---------------------------- MODULE Spec2Model ----------------------------
(***************************************************************************)
(* thepudds/bluesky-aux, package appkey (src/appkey/client.go).            *)
(*                                                                         *)
(* Check(sess) decodes the access and the refresh JWT of a session without *)
(* verifying signatures, requires the access token's scope claim to be     *)
(* "com.atproto.appPass", requires the access token not to be expired, and *)
(* reads the refresh token's expiration.                                   *)
(*                                                                         *)
(* A token string is modelled by what jwt.Parser.ParseUnverified and       *)
(* jwt.MapClaims.GetExpirationTime (golang-jwt/jwt/v5) read of it: the     *)
(* number of dot-separated segments, whether header and payload decode,    *)
(* whether the header names a known signing method, and the JSON values of *)
(* the claims "scope" and "exp".  Time is counted in ticks of              *)
(* 1/TicksPerSec second, so that an "exp" claim can carry a fraction of a  *)
(* second, which NumericDate truncates.                                    *)
(***************************************************************************)
EXTENDS Integers, Sequences, FiniteSets, TLC

\* ---------------------------------------------------------------- bounds
\* ticks per second of the model's clock
TicksPerSec == 2
\* the wall clock ranges over 1..MaxNow ticks
MaxNow == 4
\* "exp" claims range over -PastExp..MaxExp ticks
MaxExp == 4
PastExp == 1
\* calls of Check recorded for one session
MaxCalls == 2

\* ------------------------------------------------------ sentinel errors
ErrLoginUnauthorized == "unauthorized"
ErrMasterCredentials == "master credentials used"
ErrSessionExpired == "session expired"
Sentinels == {ErrLoginUnauthorized, ErrMasterCredentials, ErrSessionExpired}

\* errors of the jwt package (none of them is a sentinel of appkey)
ErrTokenMalformed == "token is malformed"
ErrTokenUnverifiable == "token is unverifiable"
ErrInvalidType == "invalid type for claim"

\* ----------------------------------------------------------- JSON values
Absent == [t |-> "absent", s |-> "", n |-> 0]
Str(x) == [t |-> "string", s |-> x, n |-> 0]
Num(x) == [t |-> "number", s |-> "", n |-> x]

AppPassScope == "com.atproto.appPass"

\* ---------------------------------------------------------------- tokens
Token(seg, hdr, pay, scope, exp) ==
  [segments |-> seg, header |-> hdr, payload |-> pay,
   claims |-> [scope |-> scope, exp |-> exp]]

ScopeValues == {Absent, Str(AppPassScope), Str("com.atproto.full"), Num(1)}
ExpValues == {Absent, Str("tomorrow")} \cup {Num(n) : n \in (0 - PastExp)..MaxExp}

\* strings ParseUnverified rejects
MalformedTokens ==
  { Token(2, "alg", "json", Str(AppPassScope), Num(MaxExp)),
    Token(3, "garbage", "json", Str(AppPassScope), Num(MaxExp)),
    Token(3, "alg", "garbage", Absent, Absent),
    Token(3, "noalg", "json", Str(AppPassScope), Num(MaxExp)) }

AccessTokens ==
  MalformedTokens \cup
  { Token(3, "alg", "json", sc, e) : sc \in ScopeValues, e \in ExpValues }

RefreshTokens ==
  MalformedTokens \cup
  { Token(3, "alg", "json", Str("com.atproto.refresh"), e) : e \in ExpValues }

Sessions == [AccessJwt : AccessTokens, RefreshJwt : RefreshTokens]

\* ------------------------------------------------------- values returned
NoError == [set |-> FALSE, is |-> {}, ts |-> 0, hasTs |-> FALSE]
Error(chain) == [set |-> TRUE, is |-> chain, ts |-> 0, hasTs |-> FALSE]
NilDate == [nil |-> TRUE, t |-> 0]
Date(t) == [nil |-> FALSE, t |-> t]

\* how a call of Check ends: ret is "nil", "error" or "panic"; is holds the
\* errors errors.Is matches; ts is the time printed in the message; line is
\* the source line at which the call ended.
Return(line, err) ==
  [ret |-> IF err.set THEN "error" ELSE "nil",
   is |-> err.is, ts |-> err.ts, hasTs |-> err.hasTs, line |-> line]
Panic(line) ==
  [ret |-> "panic", is |-> {}, ts |-> 0, hasTs |-> FALSE, line |-> line]

\* ----------------------------------------------------- the jwt package
\* jwt.NewParser().ParseUnverified(tokenString, jwt.MapClaims{})
ParseUnverified(tok) ==
  IF tok.segments # 3 THEN [err |-> Error({ErrTokenMalformed}), claims |-> tok.claims]
  ELSE IF tok.header = "garbage" THEN [err |-> Error({ErrTokenMalformed}), claims |-> tok.claims]
  ELSE IF tok.payload = "garbage" THEN [err |-> Error({ErrTokenMalformed}), claims |-> tok.claims]
  ELSE IF tok.header = "noalg" THEN [err |-> Error({ErrTokenUnverifiable}), claims |-> tok.claims]
  ELSE [err |-> NoError, claims |-> tok.claims]

\* newNumericDateFromSeconds: the seconds, truncated to jwt.TimePrecision
NumericDateFromTicks(n) == (n \div TicksPerSec) * TicksPerSec

\* token.Claims.GetExpirationTime() on jwt.MapClaims: a missing "exp" and
\* an "exp" of 0 give (nil, nil); a number gives its date; any other JSON
\* value gives ErrInvalidType.
GetExpirationTime(claims) ==
  IF claims.exp.t = "absent" THEN [date |-> NilDate, err |-> NoError]
  ELSE IF claims.exp.t = "number"
       THEN IF claims.exp.n = 0 THEN [date |-> NilDate, err |-> NoError]
            ELSE [date |-> Date(NumericDateFromTicks(claims.exp.n)), err |-> NoError]
  ELSE [date |-> NilDate, err |-> Error({ErrInvalidType})]

\* ------------------------------------------------------------ appkey.Check
ScopeIsAppPass_AbsentAccepted(claims) ==
  claims.scope = Absent \/ claims.scope = Str(AppPassScope)

\* claims["scope"] != "com.atproto.appPass" is false
ScopeIsAppPass(claims) == claims.scope = Str(AppPassScope)

\* fmt.Errorf("%w: %w", ErrLoginUnauthorized, ErrMasterCredentials)
MasterCredentialsError == Error({ErrLoginUnauthorized, ErrMasterCredentials})

\* time.Until(t): t minus the wall clock
Until(t, clock) == t - clock

Expired_Inclusive(t, clock) == Until(t, clock) <= 0

Expired_Grace(t, clock) == Until(t, clock) < 0 - TicksPerSec

\* time.Until(current.Time) < 0
Expired(t, clock) == Until(t, clock) < 0

SessionExpiredError_WrongTime(t) ==
  [set |-> TRUE, is |-> {ErrSessionExpired}, ts |-> t + TicksPerSec, hasTs |-> TRUE]

\* fmt.Errorf("%w: refresh token was valid until %v", ErrSessionExpired, current.Time)
SessionExpiredError(t) ==
  [set |-> TRUE, is |-> {ErrSessionExpired}, ts |-> t, hasTs |-> TRUE]

\* the access token's part of Check.  The type assertion of line 47 cannot
\* fail: ParseUnverified stores the jwt.MapClaims it was given.
CheckAccess(tok, clock) ==
  LET p == ParseUnverified(tok) IN
  IF p.err.set THEN Return(45, p.err)
  ELSE IF ~ScopeIsAppPass(p.claims) THEN Return(52, MasterCredentialsError)
  ELSE LET cur == GetExpirationTime(p.claims) IN
       IF cur.err.set THEN Return(58, cur.err)
       ELSE IF cur.date.nil THEN Panic(60)
       ELSE IF Expired(cur.date.t, clock)
            THEN Return(61, SessionExpiredError(cur.date.t))
       ELSE Return(63, NoError)

CheckRefresh_ParseErrorWrapped(tok) ==
  LET p == ParseUnverified(tok) IN
  IF p.err.set THEN Return(65, Error(p.err.is \cup {ErrLoginUnauthorized}))
  ELSE LET r == GetExpirationTime(p.claims) IN
       IF r.err.set THEN Return(72, r.err)
       ELSE Return(75, NoError)

\* the refresh token's part of Check
CheckRefresh(tok) ==
  LET p == ParseUnverified(tok) IN
  IF p.err.set THEN Return(65, p.err)
  ELSE LET r == GetExpirationTime(p.claims) IN
       IF r.err.set THEN Return(72, r.err)
       ELSE Return(75, NoError)

Check_RefreshExpiryEnforced(s, clock) ==
  LET a == CheckAccess(s.AccessJwt, clock)
      r == CheckRefresh(s.RefreshJwt)
      e == GetExpirationTime(s.RefreshJwt.claims) IN
  IF a.ret # "nil" THEN a
  ELSE IF r.ret = "nil" /\ ~e.date.nil /\ Expired(e.date.t, clock)
       THEN Return(72, SessionExpiredError(e.date.t))
  ELSE r

Check(s, clock) ==
  LET a == CheckAccess(s.AccessJwt, clock) IN
  IF a.ret # "nil" THEN a ELSE CheckRefresh(s.RefreshJwt)

\* ------------------------------------------------------------------ state
VARIABLES
  sess,   \* the *atproto.ServerCreateSession_Output the caller holds
  now,    \* the wall clock, in ticks
  log     \* the calls of Check made on sess: the clock and how each ended

vars == <<sess, now, log>>

\* the caller holds any session; no call has been made
Init ==
  /\ sess \in Sessions
  /\ now \in 1..MaxNow
  /\ log = <<>>

\* the wall clock changes
ClockChange ==
  /\ \E t \in 1..MaxNow : t # now /\ now' = t
  /\ UNCHANGED <<sess, log>>

\* the caller calls Check(sess)
CallCheck ==
  /\ Len(log) < MaxCalls
  /\ log' = Append(log, [at |-> now, out |-> Check(sess, now)])
  /\ UNCHANGED <<sess, now>>

Next == ClockChange \/ CallCheck

Spec == Init /\ [][Next]_vars

\* --------------------------------------------------- vocabulary of claims
\* the calls recorded for the session held
Calls == {log[i] : i \in DOMAIN log}

\* the token string can be decoded as a signed token
Decodable(tok) == tok.segments = 3 /\ tok.header = "alg" /\ tok.payload = "json"

\* the "exp" claim is there and is a timestamp
HasTimestamp(tok) == tok.claims.exp.t = "number"

\* the "exp" claim is one GetExpirationTime reads a date from
ReadableExp(tok) == tok.claims.exp.t = "number" /\ tok.claims.exp.n # 0

\* the date read from a readable "exp" claim: its whole seconds
ExpOf(tok) == (tok.claims.exp.n \div TicksPerSec) * TicksPerSec

AppPassScoped(tok) == tok.claims.scope = Str(AppPassScope)

\* the access token passes checks 1 to 4 at time t
AccessPasses(tok, t) ==
  /\ Decodable(tok) /\ AppPassScoped(tok)
  /\ ReadableExp(tok) /\ ExpOf(tok) >= t

GenericError(out) == out.ret = "error" /\ out.is \cap Sentinels = {}

\* ------------------------------------------------------------------- C1
\* C1: whenever the access token decodes and its scope claim is anything but
\* the string "com.atproto.appPass" (another string, a non-string, or no
\* claim), Check returns an error matching both ErrLoginUnauthorized and
\* ErrMasterCredentials, whatever the access expiration and the refresh token.
C1_MasterCredentials ==
  \A c \in Calls :
    (Decodable(sess.AccessJwt) /\ ~AppPassScoped(sess.AccessJwt))
      => /\ c.out.ret = "error"
         /\ {ErrLoginUnauthorized, ErrMasterCredentials} \subseteq c.out.is

\* a master-scoped (here: scope missing), unexpired access token with a
\* malformed refresh token has been checked
C1_Witness ==
  \E c \in Calls :
    /\ Decodable(sess.AccessJwt) /\ sess.AccessJwt.claims.scope = Absent
    /\ ReadableExp(sess.AccessJwt) /\ ExpOf(sess.AccessJwt) > c.at
    /\ ~Decodable(sess.RefreshJwt)
    /\ ErrMasterCredentials \in c.out.is

\* ------------------------------------------------------------------- C2
\* C2 as stated: every access token whose expiration timestamp is strictly
\* before the current time makes Check return an error matching
\* ErrSessionExpired that carries that timestamp.
C2_AsStated ==
  \A c \in Calls :
    (Decodable(sess.AccessJwt) /\ ReadableExp(sess.AccessJwt)
       /\ ExpOf(sess.AccessJwt) < c.at)
      => /\ c.out.ret = "error" /\ ErrSessionExpired \in c.out.is
         /\ c.out.hasTs /\ c.out.ts = ExpOf(sess.AccessJwt)

\* C2 amended: every access token that decodes, has scope
\* "com.atproto.appPass" and whose expiration is read as a timestamp strictly
\* before the current time makes Check return an error matching
\* ErrSessionExpired (and no other sentinel) that carries that timestamp.
C2_SessionExpired ==
  \A c \in Calls :
    (Decodable(sess.AccessJwt) /\ AppPassScoped(sess.AccessJwt)
       /\ ReadableExp(sess.AccessJwt) /\ ExpOf(sess.AccessJwt) < c.at)
      => /\ c.out.ret = "error" /\ c.out.is \cap Sentinels = {ErrSessionExpired}
         /\ c.out.hasTs /\ c.out.ts = ExpOf(sess.AccessJwt)

\* an expired application-key access token whose "exp" has a fraction of a
\* second has been checked
C2_Witness ==
  \E c \in Calls :
    /\ Decodable(sess.AccessJwt) /\ AppPassScoped(sess.AccessJwt)
    /\ ReadableExp(sess.AccessJwt) /\ ExpOf(sess.AccessJwt) < c.at
    /\ sess.AccessJwt.claims.exp.n # ExpOf(sess.AccessJwt)
    /\ c.out.line = 61

\* ------------------------------------------------------------------- C3
\* C3 as stated: whenever the access token or the refresh token is
\* malformed, Check returns a non-nil error matching none of the sentinels.
C3_AsStated ==
  \A c \in Calls :
    (~Decodable(sess.AccessJwt) \/ ~Decodable(sess.RefreshJwt))
      => GenericError(c.out)

\* C3 amended: whenever the access token is malformed, or the access token
\* passes its four checks and the refresh token is malformed, Check returns
\* a non-nil error matching none of the sentinels.
C3_Malformed ==
  \A c \in Calls :
    (\/ ~Decodable(sess.AccessJwt)
     \/ AccessPasses(sess.AccessJwt, c.at) /\ ~Decodable(sess.RefreshJwt))
      => GenericError(c.out)

\* a session whose access token passes and whose refresh token is malformed
\* has been checked
C3_Witness ==
  \E c \in Calls :
    /\ AccessPasses(sess.AccessJwt, c.at) /\ ~Decodable(sess.RefreshJwt)
    /\ c.out.line = 65

\* ------------------------------------------------------------------- C4
\* C4: whenever the access token decodes, has scope "com.atproto.appPass"
\* and an expiration not in the past, and the refresh token decodes with a
\* readable expiration, Check returns nil, also when the refresh token's
\* expiration is in the past.
C4_ReturnsNil ==
  \A c \in Calls :
    (AccessPasses(sess.AccessJwt, c.at)
       /\ Decodable(sess.RefreshJwt) /\ ReadableExp(sess.RefreshJwt))
      => c.out.ret = "nil"

\* a session with a refresh token already expired has been accepted
C4_Witness ==
  \E c \in Calls :
    /\ AccessPasses(sess.AccessJwt, c.at)
    /\ Decodable(sess.RefreshJwt) /\ ReadableExp(sess.RefreshJwt)
    /\ ExpOf(sess.RefreshJwt) < c.at
    /\ c.out.ret = "nil"

\* ------------------------------------------------------------------- C5
\* C5: when the access token decodes with scope "com.atproto.appPass" but
\* its expiration cannot be extracted (absent, or no valid timestamp), Check
\* returns a non-nil error matching none of the sentinels; the call neither
\* aborts nor goes on to the later checks.
C5_UnreadableAccessExp ==
  \A c \in Calls :
    (Decodable(sess.AccessJwt) /\ AppPassScoped(sess.AccessJwt)
       /\ ~HasTimestamp(sess.AccessJwt))
      => GenericError(c.out) /\ c.out.line = 58

SameSide(t1, t2) ==
  (Decodable(sess.AccessJwt) /\ ReadableExp(sess.AccessJwt))
    => ((ExpOf(sess.AccessJwt) < t1) <=> (ExpOf(sess.AccessJwt) < t2))

FirstFailure(s, t) ==
  IF ~Decodable(s.AccessJwt) THEN 45
  ELSE IF ~AppPassScoped(s.AccessJwt) THEN 52
  ELSE IF ~HasTimestamp(s.AccessJwt) THEN 58
  ELSE IF ExpOf(s.AccessJwt) < t THEN 61
  ELSE IF ~Decodable(s.RefreshJwt) THEN 65
  ELSE IF ~HasTimestamp(s.RefreshJwt) THEN 72
  ELSE 75

\* C8: Check evaluates (1) decode access token, (2) access scope, (3) read
\* access expiration, (4) access expiration against the clock, (5) decode
\* refresh token, (6) read refresh expiration in this order and returns the
\* error of the first check that fails, or nil when none fails; the refresh
\* token matters only when checks 1 to 4 pass, and a master-scoped, expired
\* access token yields ErrMasterCredentials and not ErrSessionExpired.
C8_FirstFailingCheck ==
  \A c \in Calls :
    /\ c.out.ret # "panic"
    /\ c.out.line = FirstFailure(sess, c.at)
    /\ (c.out.ret = "nil") <=> (c.out.line = 75)
    /\ c.out.line < 65 =>
         \A r \in RefreshTokens :
           Check([AccessJwt |-> sess.AccessJwt, RefreshJwt |-> r], c.at) = c.out
    /\ (Decodable(sess.AccessJwt) /\ ~AppPassScoped(sess.AccessJwt))
         => ErrMasterCredentials \in c.out.is /\ ErrSessionExpired \notin c.out.is

\* ------------------------------------------------------------------- C9
\* C9: for an access token that decodes with scope "com.atproto.appPass"
\* and a readable expiration E, Check fails with ErrSessionExpired exactly
\* when E is strictly earlier than the clock; with E equal to the clock the
\* token is not expired and Check goes on to the refresh token.
C9_StrictlyEarlier ==
  \A c \in Calls :
    (Decodable(sess.AccessJwt) /\ AppPassScoped(sess.AccessJwt)
       /\ ReadableExp(sess.AccessJwt))
      => /\ (c.out.ret = "error" /\ ErrSessionExpired \in c.out.is)
              <=> (ExpOf(sess.AccessJwt) < c.at)
         /\ ExpOf(sess.AccessJwt) = c.at => c.out.line \in {65, 72, 75}

\* an access token expiring at this very instant has been checked and the
\* call went on to the refresh token
C9_Witness ==
  \E c \in Calls :
    /\ Decodable(sess.AccessJwt) /\ AppPassScoped(sess.AccessJwt)
    /\ ReadableExp(sess.AccessJwt) /\ ExpOf(sess.AccessJwt) = c.at
    /\ c.out.line \in {65, 72, 75}

\* ------------------------------------------------------------------ C10
\* C10: an error of Check matches ErrLoginUnauthorized exactly when it
\* matches ErrMasterCredentials, none matches ErrSessionExpired together
\* with one of those, nil is returned only when none of the six checks
\* failed, and so every call takes exactly one of the caller's branches
\* master-credentials, session-expired, generic error, success.
C10_OneBranch ==
  \A c \in Calls :
    /\ c.out.ret \in {"nil", "error"}
    /\ (ErrLoginUnauthorized \in c.out.is) <=> (ErrMasterCredentials \in c.out.is)
    /\ ~(ErrSessionExpired \in c.out.is /\ ErrMasterCredentials \in c.out.is)
    /\ c.out.ret = "nil" => c.out.is = {}
    /\ c.out.ret = "nil" => FirstFailure(sess, c.at) = 75

=============================================================================
